---- MODULE Spec2Model ----
(***************************************************************************)
(* Model of main.py: the Elmor Labs PMD USB serial client.                 *)
(*                                                                         *)
(*   check_connection()        the WELCOME / sensor-struct exchange        *)
(*   get_new_sensor_values()   one READ_VALUES exchange and its decoding   *)
(*   animation_update()        one poll tick: read, append, evict, plot    *)
(*   __main__                  handshake, seed read, log creation, loop    *)
(*                                                                         *)
(* Bytes are integers 0..255.  Floating-point values are kept as exact     *)
(* integers in the unit of their scale factor: a voltage in 0.01 V, a      *)
(* current in 0.1 A, a power in 0.001 W (the product of the two).          *)
(***************************************************************************)
EXTENDS Integers, Sequences, FiniteSets, TLC

VARIABLES
    max_length,     \* the configured row capacity of the window (main.py:25)
    pc,             \* position of the single thread of control
    handles,        \* number of serial handles currently open
    tx,             \* every command byte written to the transport, in order
    hs,             \* outcome of the welcome assert: "none", "ok", "failed"
    welcome_bytes,  \* read_bytes of check_connection's ser.read(18)
    read_bytes,     \* read_bytes of the last get_new_sensor_values call
    df_new_data,    \* the rows returned by the last get_new_sensor_values call
    df,             \* the window: rows with their index labels, in position order
    csv,            \* the lines of measurements.csv
    clock,          \* number of timestamps taken so far
    renders,        \* number of times the three axes were re-plotted
    err,            \* exception raised by the last step (and by which call),
                    \* "none" if it raised none
    rx,             \* bytes delivered to the open handle and not yet read
    io,             \* the writes and reads of the current (or last) call of
                    \* check_connection or get_new_sensor_values, in order
    frames          \* read_bytes of every get_new_sensor_values call, in order

vars == << max_length, pc, handles, tx, hs, welcome_bytes, read_bytes,
           df_new_data, df, csv, clock, renders, err, rx, io, frames >>

-----------------------------------------------------------------------------
(* Bounds of the model.                                                    *)

\* largest configured max_length explored
MaxLengthCap == 36
\* largest number of get_new_sensor_values calls in a run (seed included)
MaxCalls == 4

-----------------------------------------------------------------------------
(* Program constants.                                                      *)

save_to_csv == TRUE

WELCOME == 0
SENSOR_STRUCT == 2
READ_VALUES == 3

\* a read of just the length of the identity string
WelcomeReadLenOfLiteral == Len("ElmorLabs PMD-USB")

WelcomeReadLen == 18
StructReadLen == 100
ValuesReadLen == 16

\* b'ElmorLabs PMD-USB'
WelcomeLiteral ==
    << 69, 108, 109, 111, 114, 76, 97, 98, 115, 32, 80, 77, 68, 45, 85, 83, 66 >>

sensors == << "PCIE1", "PCIE2", "EPS1", "EPS2" >>

\* rows of one get_new_sensor_values result: U, I and P for each sensor
RowsPerSample == 3 * Len(sensors)

CsvHeader == << "timestamp", "id", "unit", "value" >>

-----------------------------------------------------------------------------
(* Helpers: Python byte-string operations.                                 *)

Min(a, b) == IF a <= b THEN a ELSE b

\* s[a:b] for 0 <= a <= b: clipped to the length of s, never an error
Slice(s, a, b) ==
    IF a >= Min(b, Len(s)) THEN << >> ELSE SubSeq(s, a + 1, Min(b, Len(s)))

\* ser.read(n): up to n of the bytes the device delivered before the timeout
SerRead(delivered, n) == Slice(delivered, 0, n)

\* what ser.read(n) leaves in the input buffer of the handle
SerRest(delivered, n) == Slice(delivered, n, Len(delivered))

RECURSIVE FromBytesBig(_)
FromBytesBig(s) ==
    IF s = << >> THEN 0 ELSE s[Len(s)] + 256 * FromBytesBig(SubSeq(s, 1, Len(s) - 1))

\* int.from_bytes(s, byteorder='little'); 0 for the empty string
RECURSIVE FromBytesLittle(_)
FromBytesLittle(s) ==
    IF s = << >> THEN 0 ELSE Head(s) + 256 * FromBytesLittle(Tail(s))

-----------------------------------------------------------------------------
(* The welcome check of check_connection.                                  *)

\* accepts any prefix of the identity string, the empty read included
WelcomeOkPrefixOfLiteral(bytes) ==
    bytes = Slice(WelcomeLiteral, 0, Len(bytes))

\* compares only the first 17 bytes of what was read
WelcomeOkFirstBytes(bytes) ==
    Slice(bytes, 0, Len(WelcomeLiteral)) = WelcomeLiteral

\* the assert is not evaluated
WelcomeOkUnchecked(bytes) == TRUE

\* assert read_bytes == b'ElmorLabs PMD-USB'
WelcomeOk(bytes) == bytes = WelcomeLiteral

-----------------------------------------------------------------------------
(* The decoding of get_new_sensor_values.                                  *)

\* voltage_value, in units of 0.01 V, of sensor i (0-based)
voltage_value(bytes, i) == FromBytesLittle(Slice(bytes, i * 4, i * 4 + 2))

\* current_value, in units of 0.1 A, of sensor i (0-based)
current_value(bytes, i) == FromBytesLittle(Slice(bytes, i * 4 + 2, i * 4 + 4))

\* power_value = voltage_value * current_value, in units of 0.001 W
power_value(bytes, i) == voltage_value(bytes, i) * current_value(bytes, i)

\* voltage_row, current_row, power_row of sensor i: [timestamp, id, unit, value]
SensorRows(bytes, timestamp, i) ==
    << << timestamp, sensors[i + 1], "U", voltage_value(bytes, i) >>,
       << timestamp, sensors[i + 1], "I", current_value(bytes, i) >>,
       << timestamp, sensors[i + 1], "P", power_value(bytes, i) >> >>

\* rows only for the sensors whose four bytes were all read
RECURSIVE DecodeRowsAvailable(_, _, _)
DecodeRowsAvailable(bytes, timestamp, i) ==
    IF i >= Len(sensors) \/ 4 * (i + 1) > Len(bytes) THEN << >>
    ELSE SensorRows(bytes, timestamp, i)
           \o DecodeRowsAvailable(bytes, timestamp, i + 1)

\* the dataframe built by the loop over enumerate(sensors)
RECURSIVE DecodeRows(_, _, _)
DecodeRows(bytes, timestamp, i) ==
    IF i >= Len(sensors) THEN << >>
    ELSE SensorRows(bytes, timestamp, i) \o DecodeRows(bytes, timestamp, i + 1)

\* the file is written anew on every call, as without mode='a'
CsvOverwrite(file, rows) == rows

\* df.to_csv('measurements.csv', mode='a', header=False, index=False)
CsvAppend(file, rows) == file \o rows

\* df.to_csv('measurements.csv', index=False): the file is written anew
CsvCreate(rows) == << CsvHeader >> \o rows

-----------------------------------------------------------------------------
(* The window of animation_update: a sequence of [index, row] in position  *)
(* order, as a dataframe keeps its index labels beside its rows.           *)

RECURSIVE IndexMax(_)
IndexMax(d) ==
    IF Len(d) = 1 THEN d[1].index
    ELSE LET m == IndexMax(Tail(d)) IN IF d[1].index >= m THEN d[1].index ELSE m

RECURSIVE IndexMin(_)
IndexMin(d) ==
    IF Len(d) = 1 THEN d[1].index
    ELSE LET m == IndexMin(Tail(d)) IN IF d[1].index <= m THEN d[1].index ELSE m

\* the rows of a frame, without their index labels
Rows(d) == [k \in 1..Len(d) |-> d[k].row]

\* the frame a get_new_sensor_values result is when it becomes the window:
\* ignore_index=True labels its rows 0, 1, 2, ...
AsFrame(rows) == [k \in 1..Len(rows) |-> [index |-> k - 1, row |-> rows[k]]]

\* the new rows are put before the old ones
PrependRows(d, rows) == AsFrame(rows \o Rows(d))

\* for _, row in df_new_data.iterrows(): df.loc[df.index.max()+1] = row
RECURSIVE AppendRows(_, _)
AppendRows(d, rows) ==
    IF rows = << >> THEN d
    ELSE AppendRows(Append(d, [index |-> IndexMax(d) + 1, row |-> Head(rows)]),
                    Tail(rows))

IsNot(e, m) == e.index # m

DropIndexMax(d) ==
    LET m == IndexMax(d) IN SelectSeq(d, LAMBDA e : IsNot(e, m))

\* df.drop(df.index.min(), inplace=True)
DropIndexMin(d) ==
    LET m == IndexMin(d) IN SelectSeq(d, LAMBDA e : IsNot(e, m))

RECURSIVE DropTimes(_, _)
DropTimes(d, n) == IF n = 0 THEN d ELSE DropTimes(DropIndexMin(d), n - 1)

ExceedsOffByOne(rows, limit) == rows > limit + 1

\* df.shape[0] > max_length
Exceeds(rows, limit) == rows > limit

\* a single drop instead of one per new row
EvictOneRow(d, new_rows, limit) ==
    IF Exceeds(Len(d), limit) THEN DropTimes(d, 1) ELSE d

\* whole Samples are dropped from the oldest end until the count fits
RECURSIVE EvictUntilFits(_, _, _)
EvictUntilFits(d, new_rows, limit) ==
    IF Exceeds(Len(d), limit)
    THEN EvictUntilFits(DropTimes(d, Len(new_rows)), new_rows, limit)
    ELSE d

\* if df.shape[0] > max_length: for _ in range(len(df_new_data)): df.drop(...)
Evict(d, new_rows, limit) ==
    IF Exceeds(Len(d), limit) THEN DropTimes(d, Len(new_rows)) ELSE d

-----------------------------------------------------------------------------
(* What the device may deliver before the read timeout expires.            *)

\* a full frame: PCIE1 = 1.00 V 1.0 A, PCIE2 = 12.00 V 0.5 A,
\* EPS1 = 0xFFFF 0x7F7F, EPS2 = 0x0201 0x0403
KnownFrame == << 100, 0, 10, 0, 176, 4, 5, 0, 255, 255, 127, 127, 1, 2, 3, 4 >>

ZeroFrame == [k \in 1..ValuesReadLen |-> 0]

\* answers to WELCOME: the identity string, the identity string followed by
\* one or two more bytes, truncated and altered identity strings, 18 other
\* bytes, nothing
WelcomeReplies ==
    { WelcomeLiteral,
      WelcomeLiteral \o << 0 >>,
      WelcomeLiteral \o << 13, 10 >>,
      Slice(WelcomeLiteral, 0, Len(WelcomeLiteral) - 1),
      [WelcomeLiteral EXCEPT ![Len(WelcomeLiteral)] = 98],
      [k \in 1..WelcomeReadLen |-> 88],
      << >> }

\* answers to READ_VALUES: full frames, a frame followed by one more byte,
\* a frame cut short by the timeout, nothing
ValueReplies ==
    { KnownFrame, ZeroFrame, KnownFrame \o << 7 >>, Slice(KnownFrame, 0, 5), << >> }

-----------------------------------------------------------------------------
(* Scoped acquisition: with serial.Serial(...) as ser.          *)

\* a close only at the end of the block, skipped when the block raises
WithExitNoCleanup(h, raised) == IF raised THEN h ELSE h - 1

\* leaving the with block closes the handle, whether or not the block raised
WithExit(h, raised) == h - 1

\* An exception that leaves animation_update is not caught in main.py: it
\* reaches the timer of the GUI event loop that FuncAnimation installed.
\* Whether that timer fires again is the backend's: some re-arm it, some do
\* not, some abort the process.
UncaughtInTick == { "polling", "halted" }

\* An exception that leaves __main__ before plt.show() ends the program.
Uncaught(caller) == IF caller = "tick" THEN UncaughtInTick ELSE { "halted" }

-----------------------------------------------------------------------------
\* The configured max_length values explored: those next to a multiple of
\* the 12 rows of a Sample.  The window always holds a multiple of 12 rows,
\* so df.shape[0] > max_length only depends on which two multiples
\* max_length lies between, and on whether it is one of them.
MaxLengths ==
    { m \in 0..MaxLengthCap :
        m % RowsPerSample \in { 0, 1, RowsPerSample - 1 } }

Init ==
    /\ max_length \in MaxLengths
    /\ pc = "start"
    /\ handles = 0
    /\ tx = << >>
    /\ hs = "none"
    /\ welcome_bytes = << >>
    /\ read_bytes = << >>
    /\ df_new_data = << >>
    /\ df = << >>
    /\ csv = << >>
    /\ clock = 0
    /\ renders = 0
    /\ err = "none"
    /\ rx = << >>
    /\ io = << >>
    /\ frames = << >>

-----------------------------------------------------------------------------
(* check_connection                                                        *)

\* serial.Serial(...) opens the port
check_connection_open ==
    /\ pc = "start"
    /\ pc' = "cc_opened"
    /\ handles' = handles + 1
    /\ err' = "none"
    /\ rx' = << >>
    /\ io' = << >>
    /\ UNCHANGED << max_length, tx, hs, welcome_bytes, read_bytes, df_new_data,
                    df, csv, clock, renders, frames >>

\* serial.Serial(...) raises SerialException: no handle exists
check_connection_open_fails ==
    /\ pc = "start"
    /\ pc' \in Uncaught("main")
    /\ err' = "SerialException(open)"
    /\ io' = << >>
    /\ UNCHANGED << max_length, handles, tx, hs, welcome_bytes, read_bytes,
                    df_new_data, df, csv, clock, renders, rx, frames >>

\* ser.write(b'\x00'); ser.flush()
check_connection_write_welcome ==
    /\ pc = "cc_opened"
    /\ pc' = "cc_wrote_welcome"
    /\ tx' = Append(tx, WELCOME)
    /\ err' = "none"
    /\ io' = Append(io, << "write", WELCOME >>)
    /\ UNCHANGED << max_length, handles, hs, welcome_bytes, read_bytes,
                    df_new_data, df, csv, clock, renders, rx, frames >>

\* ser.write / ser.flush raises SerialException inside the with block
check_connection_write_fails ==
    /\ pc \in { "cc_opened", "cc_welcome_ok" }
    /\ pc' \in Uncaught("main")
    /\ handles' = WithExit(handles, TRUE)
    /\ err' = "SerialException(write)"
    /\ rx' = << >>
    /\ UNCHANGED << max_length, tx, hs, welcome_bytes, read_bytes, df_new_data,
                    df, csv, clock, renders, io, frames >>

\* read_bytes = ser.read(18); assert read_bytes == b'ElmorLabs PMD-USB'
check_connection_read_welcome ==
    /\ pc = "cc_wrote_welcome"
    /\ \E delivered \in WelcomeReplies :
         LET bytes == SerRead(rx \o delivered, WelcomeReadLen) IN
           /\ welcome_bytes' = bytes
           /\ IF WelcomeOk(bytes)
              THEN /\ hs' = "ok"
                   /\ pc' = "cc_welcome_ok"
                   /\ handles' = handles
                   /\ rx' = SerRest(rx \o delivered, WelcomeReadLen)
                   /\ err' = "none"
              ELSE /\ hs' = "failed"
                   /\ pc' \in Uncaught("main")
                   /\ handles' = WithExit(handles, TRUE)
                   /\ rx' = << >>
                   /\ err' = "AssertionError"
    /\ io' = Append(io, << "read", WelcomeReadLen >>)
    /\ UNCHANGED << max_length, tx, read_bytes, df_new_data, df, csv, clock,
                    renders, frames >>

\* ser.write(b'\x02'); ser.flush()
check_connection_write_struct ==
    /\ pc = "cc_welcome_ok"
    /\ pc' = "cc_wrote_struct"
    /\ tx' = Append(tx, SENSOR_STRUCT)
    /\ err' = "none"
    /\ io' = Append(io, << "write", SENSOR_STRUCT >>)
    /\ UNCHANGED << max_length, handles, hs, welcome_bytes, read_bytes,
                    df_new_data, df, csv, clock, renders, rx, frames >>

\* read_bytes = ser.read(100); print('Struct: ', read_bytes); the with block
\* ends and check_connection returns.  The printed bytes are not state; the
\* read takes whatever the input buffer holds, which the close discards.
check_connection_read_struct ==
    /\ pc = "cc_wrote_struct"
    /\ pc' = "seed"
    /\ handles' = WithExit(handles, FALSE)
    /\ err' = "none"
    /\ rx' = << >>
    /\ io' = Append(io, << "read", StructReadLen >>)
    /\ UNCHANGED << max_length, tx, hs, welcome_bytes, read_bytes, df_new_data,
                    df, csv, clock, renders, frames >>

-----------------------------------------------------------------------------
(* get_new_sensor_values, called by __main__ for the seed ("seed") and by  *)
(* animation_update on each tick ("tick").                                 *)

Rest(caller) == IF caller = "tick" THEN "polling" ELSE "seed"
Opened(caller) == IF caller = "tick" THEN "tick_opened" ELSE "seed_opened"
\* control is back with the caller once the command is written, the read
\* being left for later
WroteBackAtRest(caller) == Rest(caller)

Wrote(caller) == IF caller = "tick" THEN "tick_wrote" ELSE "seed_wrote"

\* serial.Serial(...) opens the port
get_new_sensor_values_open(caller) ==
    /\ pc = Rest(caller)
    /\ clock < MaxCalls
    /\ pc' = Opened(caller)
    /\ handles' = handles + 1
    /\ err' = "none"
    /\ rx' = << >>
    /\ io' = << >>
    /\ UNCHANGED << max_length, tx, hs, welcome_bytes, read_bytes, df_new_data,
                    df, csv, clock, renders, frames >>

\* serial.Serial(...) raises SerialException: no handle exists
get_new_sensor_values_open_fails(caller) ==
    /\ pc = Rest(caller)
    /\ clock < MaxCalls
    /\ pc' \in Uncaught(caller)
    /\ err' = "SerialException(open)"
    /\ io' = << >>
    /\ UNCHANGED << max_length, handles, tx, hs, welcome_bytes, read_bytes,
                    df_new_data, df, csv, clock, renders, rx, frames >>

\* ser.write(b'\x03'); ser.flush()
get_new_sensor_values_write(caller) ==
    /\ pc = Opened(caller)
    /\ pc' = Wrote(caller)
    /\ tx' = Append(tx, READ_VALUES)
    /\ err' = "none"
    /\ io' = Append(io, << "write", READ_VALUES >>)
    /\ UNCHANGED << max_length, handles, hs, welcome_bytes, read_bytes,
                    df_new_data, df, csv, clock, renders, rx, frames >>

\* ser.write / ser.flush raises SerialException inside the with block
get_new_sensor_values_write_fails(caller) ==
    /\ pc = Opened(caller)
    /\ pc' \in Uncaught(caller)
    /\ handles' = WithExit(handles, TRUE)
    /\ err' = "SerialException(write)"
    /\ rx' = << >>
    /\ UNCHANGED << max_length, tx, hs, welcome_bytes, read_bytes, df_new_data,
                    df, csv, clock, renders, io, frames >>

\* read_bytes = ser.read(16), the with block ends, the rows are built from
\* whatever was read and, when save is set, appended to the log.  Yields the
\* new values of read_bytes, df_new_data and csv as they are on return.
get_new_sensor_values_return(delivered, save) ==
    LET bytes == SerRead(rx \o delivered, ValuesReadLen)
        timestamp == clock + 1
        rows == DecodeRows(bytes, timestamp, 0)
    IN  [ bytes |-> bytes,
          rows |-> rows,
          csv |-> IF save THEN CsvAppend(csv, rows) ELSE csv ]

\* __main__: df = get_new_sensor_values(save_to_csv=False); the log is then
\* created with its header and the seed rows; the figure is set up and the
\* animation started.
seed_read ==
    /\ pc = Wrote("seed")
    /\ \E delivered \in ValueReplies :
         LET r == get_new_sensor_values_return(delivered, FALSE) IN
           /\ read_bytes' = r.bytes
           /\ df_new_data' = r.rows
           /\ frames' = Append(frames, r.bytes)
           /\ df' = AsFrame(r.rows)
           /\ csv' = IF save_to_csv THEN CsvCreate(r.rows) ELSE r.csv
    /\ handles' = WithExit(handles, FALSE)
    /\ clock' = clock + 1
    /\ pc' = "polling"
    /\ err' = "none"
    /\ rx' = << >>
    /\ io' = Append(io, << "read", ValuesReadLen >>)
    /\ UNCHANGED << max_length, tx, hs, welcome_bytes, renders >>

\* animation_update from the return of get_new_sensor_values(save_to_csv) on:
\* append the new rows, evict, pivot and plot.
tick_read ==
    /\ pc = Wrote("tick")
    /\ \E delivered \in ValueReplies :
         LET r == get_new_sensor_values_return(delivered, save_to_csv) IN
           /\ read_bytes' = r.bytes
           /\ df_new_data' = r.rows
           /\ frames' = Append(frames, r.bytes)
           /\ csv' = r.csv
           /\ df' = Evict(AppendRows(df, r.rows), r.rows, max_length)
    /\ handles' = WithExit(handles, FALSE)
    /\ clock' = clock + 1
    /\ renders' = renders + 1
    /\ pc' = "polling"
    /\ err' = "none"
    /\ rx' = << >>
    /\ io' = Append(io, << "read", ValuesReadLen >>)
    /\ UNCHANGED << max_length, tx, hs, welcome_bytes >>

seed_open == get_new_sensor_values_open("seed")
seed_open_fails == get_new_sensor_values_open_fails("seed")
seed_write == get_new_sensor_values_write("seed")
seed_write_fails == get_new_sensor_values_write_fails("seed")

tick_open == get_new_sensor_values_open("tick")
tick_open_fails == get_new_sensor_values_open_fails("tick")
tick_write == get_new_sensor_values_write("tick")
tick_write_fails == get_new_sensor_values_write_fails("tick")

\* the figure window is closed between two ticks: plt.show() returns
close_window ==
    /\ pc = "polling"
    /\ pc' = "closed"
    /\ err' = "none"
    /\ UNCHANGED << max_length, handles, tx, hs, welcome_bytes, read_bytes,
                    df_new_data, df, csv, clock, renders, rx, io, frames >>

Next ==
    \/ check_connection_open
    \/ check_connection_open_fails
    \/ check_connection_write_welcome
    \/ check_connection_write_fails
    \/ check_connection_read_welcome
    \/ check_connection_write_struct
    \/ check_connection_read_struct
    \/ seed_open
    \/ seed_open_fails
    \/ seed_write
    \/ seed_write_fails
    \/ seed_read
    \/ tick_open
    \/ tick_open_fails
    \/ tick_write
    \/ tick_write_fails
    \/ tick_read
    \/ close_window

Spec == Init /\ [][Next]_vars

-----------------------------------------------------------------------------
(* Claims.                                                                 *)

Range(f) == { f[k] : k \in DOMAIN f }

\* C1 as stated: for any configured max_length, once a tick's append-and-
\* evict step has completed the window holds at most max_length rows.
C1_RowCountAtMostMaxLength ==
    renders > 0 => Len(df) <= max_length

\* C1, amended: for any max_length of at least the 12 rows of one Sample,
\* once a tick's append-and-evict step has completed the window holds at
\* most max_length rows; for a smaller max_length it holds exactly 12 rows.
C1_RowCountAtMostMaxLengthFromOneSample ==
    renders > 0 =>
      /\ max_length >= RowsPerSample => Len(df) <= max_length
      /\ max_length < RowsPerSample => Len(df) = RowsPerSample

\* a tick has evicted and left the window filled to exactly max_length
C1_Witness ==
    /\ renders >= 2
    /\ max_length >= RowsPerSample
    /\ Len(df) = max_length
    /\ Len(df) < RowsPerSample * clock

\* C2: a tick whose read returns fewer than 16 bytes leaves the window as
\* it was, and a tick whose read returns 16 bytes appends one Sample.
C2_TimeoutTickSkipped ==
    [][ pc = "tick_wrote" =>
          /\ Len(read_bytes') < ValuesReadLen => df' = df
          /\ Len(read_bytes') = ValuesReadLen =>
                /\ Len(df') >= RowsPerSample
                /\ SubSeq(Rows(df'), Len(df') - RowsPerSample + 1, Len(df'))
                     = df_new_data' ]_vars

\* C3 as stated: the handshake never succeeds on a read of fewer than 18
\* bytes.
C3_ShortReadNeverSucceeds ==
    Len(welcome_bytes) < WelcomeReadLen => hs # "ok"

\* C3, amended: the handshake fails whenever the transport delivers fewer
\* than the 17 bytes of the identity string; it succeeds only on a read of
\* exactly 17 bytes, one short of the 18 requested.
C3_FewerThanLiteralFails ==
    /\ (hs # "none" /\ Len(welcome_bytes) < Len(WelcomeLiteral)) => hs = "failed"
    /\ hs = "ok" => Len(welcome_bytes) = WelcomeReadLen - 1

\* the device delivered the identity string less its last byte: rejected
C3_Witness ==
    /\ hs = "failed"
    /\ Len(welcome_bytes) = Len(WelcomeLiteral) - 1
    /\ welcome_bytes = Slice(WelcomeLiteral, 0, Len(welcome_bytes))
    /\ pc = "halted"

\* C4 as stated: a response is accepted only if it is 18 bytes long, and a
\* full 18-byte identity frame (the identity string and one more byte) is
\* accepted.
C4_AcceptsIffEighteenByteLiteral ==
    /\ hs = "ok" => Len(welcome_bytes) = WelcomeReadLen
    /\ (hs # "none" /\ Len(welcome_bytes) = WelcomeReadLen
          /\ Slice(welcome_bytes, 0, Len(WelcomeLiteral)) = WelcomeLiteral)
         => hs = "ok"

\* C4, amended: a response is accepted if and only if it is exactly the 17
\* bytes of the identity string; every 18-byte response is rejected, the
\* identity string followed by one more byte included.
C4_AcceptsIffSeventeenByteLiteral ==
    hs # "none" =>
      /\ hs = "ok" <=>
           /\ Len(welcome_bytes) = 17
           /\ \A k \in 1..17 : welcome_bytes[k] = WelcomeLiteral[k]
      /\ Len(welcome_bytes) # 17 => hs = "failed"

\* an 18-byte identity frame was read and rejected
C4_Witness ==
    /\ hs = "failed"
    /\ Len(welcome_bytes) = WelcomeReadLen
    /\ Slice(welcome_bytes, 0, Len(WelcomeLiteral)) = WelcomeLiteral

\* C5: READ_VALUES is written, the window or the log is filled, or the
\* renderer runs only after the device answered WELCOME with the identity
\* string; once it has answered anything else the program has halted.
C5_HandshakeFailureIsFatal ==
    /\ (READ_VALUES \in Range(tx) \/ df # << >> \/ csv # << >> \/ renders > 0
          \/ clock > 0)
         => (hs = "ok" /\ welcome_bytes = WelcomeLiteral)
    /\ (hs # "none" /\ welcome_bytes # WelcomeLiteral)
         => (hs = "failed" /\ pc = "halted" /\ tx = << WELCOME >>)

\* the handshake failed on an altered identity string and the program halted
C5_Witness ==
    /\ hs = "failed"
    /\ pc = "halted"
    /\ err = "AssertionError"
    /\ Len(welcome_bytes) = Len(WelcomeLiteral)
    /\ tx = << WELCOME >>

\* C6: a READ_VALUES response that is not 16 bytes long produces no rows.
C6_WrongLengthProducesNoReadings ==
    (clock > 0 /\ Len(read_bytes) # ValuesReadLen) => df_new_data = << >>

\* C7: on every tick the window afterwards is a suffix of the window before
\* followed by the new rows; nothing of the window before is dropped unless
\* the row count with the new rows exceeds max_length.
C7_EvictsOldestOnlyWhenExceeded ==
    [][ pc = "tick_wrote" =>
          LET old == Rows(df)
              new == df_new_data'
              after == Rows(df')
          IN  /\ \E k \in 0..Len(old) :
                   /\ after = SubSeq(old, k + 1, Len(old)) \o new
                   /\ k > 0 => Len(old) + Len(new) > max_length
              /\ Len(old) + Len(new) <= max_length => after = old \o new
              /\ \A k \in 1..(Len(df') - 1) : df'[k].index < df'[k + 1].index
      ]_vars

\* a tick has evicted the seed Sample and kept a later one beside the newest
C7_Witness ==
    /\ renders >= 2
    /\ Len(df) > RowsPerSample
    /\ df[1].row[1] > 1
    /\ df[Len(df)].row[1] = clock

\* C8: no serial handle is open outside a call of check_connection or
\* get_new_sensor_values, however the call ended, and never more than one.
C8_HandleReleasedOnEveryExit ==
    /\ handles \in { 0, 1 }
    /\ pc \in { "start", "seed", "polling", "halted", "closed" } => handles = 0
    /\ err # "none" => handles = 0

\* a tick's write failed inside the with block and the handle is closed
C8_Witness ==
    /\ err = "SerialException(write)"
    /\ pc = "polling"
    /\ renders > 0
    /\ handles = 0

\* C9: a tick whose transport open or write fails leaves the window and
\* the log unchanged and leaves the program polling.
C9_TransportFailureTickNonFatal ==
    [][ (pc \in { "polling", "tick_opened" }
           /\ err' \in { "SerialException(open)", "SerialException(write)" })
        => (df' = df /\ csv' = csv /\ pc' = "polling") ]_vars

\* C10: for a 16-byte payload the rows of rail i (0..3) carry the unsigned
\* little-endian 16-bit integer at offset 4i as voltage in 0.01 V, the one
\* at offset 4i+2 as current in 0.1 A, and their product as power in
\* 0.001 W, in the order PCIE1, PCIE2, EPS1, EPS2; 64 00 0A 00 gives 1.00 V,
\* 1.0 A, 1.000 W and an all-zero payload gives all-zero values.
C10_DecodedValues ==
    (clock > 0 /\ Len(read_bytes) = 16) =>
      /\ Len(df_new_data) = 12
      /\ \A i \in 0..3 :
           LET name == << "PCIE1", "PCIE2", "EPS1", "EPS2" >>[i + 1]
               u == read_bytes[4 * i + 1] + 256 * read_bytes[4 * i + 2]
               a == read_bytes[4 * i + 3] + 256 * read_bytes[4 * i + 4]
           IN  /\ df_new_data[3 * i + 1] = << clock, name, "U", u >>
               /\ df_new_data[3 * i + 2] = << clock, name, "I", a >>
               /\ df_new_data[3 * i + 3] = << clock, name, "P", u * a >>
      /\ SubSeq(read_bytes, 1, 4) = << 100, 0, 10, 0 >> =>
           /\ df_new_data[1][4] = 100
           /\ df_new_data[2][4] = 10
           /\ df_new_data[3][4] = 1000
      /\ (\A k \in 1..16 : read_bytes[k] = 0) =>
           \A k \in 1..12 : df_new_data[k][4] = 0

\* the known vector was read and decoded to 1.00 V, 1.0 A, 1.000 W
C10_Witness ==
    /\ clock > 0
    /\ Len(read_bytes) = 16
    /\ SubSeq(read_bytes, 1, 4) = << 100, 0, 10, 0 >>
    /\ df_new_data[1] = << clock, "PCIE1", "U", 100 >>
    /\ df_new_data[3] = << clock, "PCIE1", "P", 1000 >>
    /\ df_new_data[9][4] = 65535 * 32639

-----------------------------------------------------------------------------
(* Claims C11 to C17.                                                      *)

\* every READ_VALUES read so far returned a full 16-byte frame
AllFramesFull == \A k \in 1..Len(frames) : Len(frames[k]) = 16

\* the unsigned little-endian 16-bit integer at 0-based offset o of frame f
U16(f, o) == f[o + 1] + 256 * f[o + 2]

\* the window holds one Sample per frame read, in arrival order: rows
\* 12(k-1)+1 .. 12k are the k-th frame's, stamped with the k-th timestamp
SamplesInArrivalOrder ==
    /\ Len(df) = 12 * Len(frames)
    /\ \A k \in 1..Len(frames) : \A i \in 0..3 :
         LET base == 12 * (k - 1) + 3 * i
             u == U16(frames[k], 4 * i)
             a == U16(frames[k], 4 * i + 2)
         IN  /\ df[base + 1].row = << k, sensors[i + 1], "U", u >>
             /\ df[base + 2].row = << k, sensors[i + 1], "I", a >>
             /\ df[base + 3].row = << k, sensors[i + 1], "P", u * a >>

\* the handshake succeeded, n >= 1 frames were read, all of them full, the
\* window is below capacity, and the program is between two ticks
C11_Scenario ==
    /\ hs = "ok"
    /\ pc = "polling"
    /\ Len(frames) >= 1
    /\ AllFramesFull
    /\ 12 * Len(frames) <= max_length

\* C11 as stated: after the welcome literal and n valid frames, with the
\* window below capacity, the window holds n Samples in arrival order and
\* the renderer has run n times.
C11_SamplesAndRendersEqualFrames ==
    C11_Scenario => (SamplesInArrivalOrder /\ renders = Len(frames))

\* C11, amended: after the welcome literal and n valid frames, with the
\* window below capacity, the window holds n Samples in arrival order and
\* the renderer has run n - 1 times: once after each Sample a tick appended,
\* and not for the first Sample, which __main__ reads before the animation
\* starts.
C11_SamplesEqualFramesRendersOneLess ==
    C11_Scenario => (SamplesInArrivalOrder /\ renders = Len(frames) - 1)

\* three different valid frames have arrived and the window holds them all
C11_Witness ==
    /\ C11_Scenario
    /\ Len(frames) = 3
    /\ frames[1] # frames[2]
    /\ frames[2] # frames[3]
    /\ Len(df) = 36
    /\ renders = 2

IsPrefix(p, q) == Len(p) <= Len(q) /\ p = SubSeq(q, 1, Len(p))

\* a call of check_connection or of get_new_sensor_values has returned
\* and nothing has been started since
ReturnedFromCheckConnection == pc = "seed"
ReturnedFromGetValues == pc = "polling" /\ err = "none"

\* C12 as stated: every call performs one command write followed by one
\* read, of 18 bytes after WELCOME and of 16 bytes after READ_VALUES, and
\* no byte is left in the input buffer for a later read.
C12_OneWriteOneReadPerOperation ==
    /\ IsPrefix(io, << << "write", 0 >>, << "read", 18 >> >>)
         \/ IsPrefix(io, << << "write", 3 >>, << "read", 16 >> >>)
    /\ ReturnedFromCheckConnection => Len(io) = 2
    /\ ReturnedFromGetValues => Len(io) = 2
    /\ rx = << >>

\* C12, amended: get_new_sensor_values performs one write of READ_VALUES
\* followed by one read of 16 bytes; check_connection performs the write of
\* WELCOME and a read of 18 bytes and, once the welcome check has passed, a
\* second write (the sensor-struct request 0x02) and a read of 100 bytes on
\* the same handle; no byte is left in the input buffer for a later read.
C12_WritesAndReadsPerOperation ==
    /\ IsPrefix(io, << << "write", 0 >>, << "read", 18 >>,
                       << "write", 2 >>, << "read", 100 >> >>)
         \/ IsPrefix(io, << << "write", 3 >>, << "read", 16 >> >>)
    /\ ReturnedFromCheckConnection => Len(io) = 4
    /\ ReturnedFromGetValues => Len(io) = 2
    /\ (pc = "halted" /\ hs = "failed") => Len(io) = 2
    /\ rx = << >>

\* check_connection has written twice and a tick has since completed its
\* one write and one read
C12_Witness ==
    /\ tx = << WELCOME, SENSOR_STRUCT, READ_VALUES, READ_VALUES >>
    /\ ReturnedFromGetValues
    /\ pc = "polling"
    /\ io = << << "write", READ_VALUES >>, << "read", ValuesReadLen >> >>
    /\ rx = << >>

\* C13: in every state the window consists of complete Samples: its rows
\* come in blocks of 12 that share one timestamp and run through PCIE1,
\* PCIE2, EPS1, EPS2 with U, I, P each, and no two blocks share a timestamp.
C13_WholeSamplesOnly ==
    /\ Len(df) % 12 = 0
    /\ \A b \in 0..((Len(df) \div 12) - 1) :
         /\ \A j \in 1..12 :
              /\ df[12 * b + j].row[1] = df[12 * b + 1].row[1]
              /\ df[12 * b + j].row[2]
                   = << "PCIE1", "PCIE2", "EPS1", "EPS2" >>[((j - 1) \div 3) + 1]
              /\ df[12 * b + j].row[3] = << "U", "I", "P" >>[((j - 1) % 3) + 1]
         /\ \A c \in 0..(b - 1) : df[12 * c + 1].row[1] < df[12 * b + 1].row[1]

\* two Samples have been evicted and two whole ones are retained
C13_Witness ==
    /\ pc = "polling"
    /\ clock = 4
    /\ Len(df) = 24
    /\ df[1].row[1] = 3
    /\ df[13].row[1] = 4
    /\ max_length < 36

\* the number of READ_VALUES commands written so far
ValuesWritten == Len(SelectSeq(tx, LAMBDA b : b = READ_VALUES))

\* C14: a READ_VALUES exchange is started only when no handle is open, every
\* READ_VALUES written before has been read, and every Sample a tick has
\* read is appended and rendered; no two exchanges are ever in flight.
C14_PollingIsSerial ==
    [][ /\ handles' <= 1
        /\ (pc' \in { "seed_opened", "tick_opened" } /\ pc' # pc) =>
             /\ pc \in { "seed", "polling" }
             /\ handles = 0
             /\ ValuesWritten = Len(frames)
             /\ ValuesWritten = clock
             /\ pc = "polling" =>
                  /\ renders = Len(frames) - 1
                  /\ Len(df) >= RowsPerSample
                  /\ df[Len(df)].row[1] = Len(frames)
      ]_vars

\* a second tick's exchange is in flight after the first tick has read,
\* appended and rendered
C14_Witness ==
    /\ pc = "tick_wrote"
    /\ handles = 1
    /\ renders = 1
    /\ Len(frames) = 2
    /\ ValuesWritten = 3

\* C15: once the seed is read, the log is the header followed by the 12
\* rows of every Sample polled so far, each once and in poll order, and the
\* rows of the window are the last rows of the log.
C15_LogHoldsEverySampleOnce ==
    (save_to_csv /\ clock >= 1) =>
      /\ Len(frames) = clock
      /\ Len(csv) = 1 + 12 * Len(frames)
      /\ csv[1] = << "timestamp", "id", "unit", "value" >>
      /\ \A k \in 1..Len(frames) :
           SubSeq(csv, 12 * (k - 1) + 2, 12 * k + 1) = DecodeRows(frames[k], k, 0)
      /\ Len(df) < Len(csv)
      /\ Rows(df) = SubSeq(csv, Len(csv) - Len(df) + 1, Len(csv))

\* four Samples are in the log, the last two of them in the window
C15_Witness ==
    /\ pc = "polling"
    /\ Len(csv) = 49
    /\ Len(df) = 24
    /\ csv[2][1] = 1
    /\ csv[49][1] = 4
    /\ df[1].row = csv[26]

\* C16: whatever number of bytes was read, a returning call yields 12 rows,
\* PCIE1-U, PCIE1-I, PCIE1-P, PCIE2-U, ..., EPS2-P, all with the timestamp
\* of the call; a tick grows the window by exactly 12 rows, or, when it
\* evicts, leaves its length as it was (12 added, 12 removed).
C16_TwelveRowsPerCall ==
    [][ /\ clock' >= 1 =>
             /\ Len(read_bytes') \in 0..16
             /\ Len(df_new_data') = 12
             /\ \A j \in 1..12 :
                  /\ df_new_data'[j][1] = clock'
                  /\ df_new_data'[j][2]
                       = << "PCIE1", "PCIE2", "EPS1", "EPS2" >>[((j - 1) \div 3) + 1]
                  /\ df_new_data'[j][3] = << "U", "I", "P" >>[((j - 1) % 3) + 1]
        /\ pc = "tick_wrote" =>
             /\ Len(df) + 12 <= max_length => Len(df') = Len(df) + 12
             /\ Len(df) + 12 > max_length => Len(df') = Len(df)
        /\ pc = "seed_wrote" => Len(df') = 12
      ]_vars

\* a tick's read timed out with no byte and 12 zero rows were returned
C16_Witness ==
    /\ renders >= 1
    /\ pc = "polling"
    /\ err = "none"
    /\ read_bytes = << >>
    /\ Len(df_new_data) = 12
    /\ df_new_data[1] = << clock, "PCIE1", "U", 0 >>
    /\ df_new_data[12] = << clock, "EPS2", "P", 0 >>

\* C17: once the seed is read the window is never empty, whatever
\* max_length is: it holds at least 12 rows and its last 12 rows are the
\* Sample read last.
C17_WindowNeverEmpty ==
    clock >= 1 =>
      /\ Len(df) >= 12
      /\ SubSeq(Rows(df), Len(df) - 11, Len(df)) = df_new_data
      /\ df[Len(df)].row[1] = clock

\* with max_length 0 two ticks have run and the window holds the newest
\* Sample alone
C17_Witness ==
    /\ max_length = 0
    /\ renders >= 2
    /\ Len(df) = 12
    /\ df[1].row[1] = clock
    /\ pc = "polling"

====
